---- MODULE Spec2Model ----
(***************************************************************************)
(* Personal Library Manager (src/app.py): the in-memory record store       *)
(* st.session_state.library, the JSON file LIBRARY_FILE, and the           *)
(* operations on them: session-start load, save_library, add_book,         *)
(* edit_book, remove_book, search_books, the "Load Library from File"      *)
(* handler, the two form-submit handlers and the View Library filter.      *)
(*                                                                         *)
(* Text (title, author, review, genre tags) is a sequence of one-character *)
(* strings, so that str.lower() is computed character by character.        *)
(* A book (a Python dict) is a function from its keys to their values; a   *)
(* book read from an older file may lack keys.                             *)
(***************************************************************************)
EXTENDS Integers, Sequences, FiniteSets, TLC

VARIABLES
    session,         \* TRUE once 'library' is in st.session_state
    library,         \* st.session_state.library
    file,            \* the content of LIBRARY_FILE on disk
    ioFailures,      \* file-system errors injected so far
    op,              \* the operation that ran last
    arg,             \* the index, title or query it was called with
    ret,             \* its outcome: return value, raised exception, or message
    saved,           \* what save_library reported during it
    filtered_books,  \* the View Library tab's filtered list
    results          \* what search_books returned

vars == <<session, library, file, ioFailures, op, arg, ret, saved, filtered_books,
         results>>

----------------------------------------------------------------------------
(* Bounds of the model *)

MaxBooks == 2        \* add_book is not called on a longer library
MaxIOFailures == 1   \* file-system errors (open/read/write) injected in a run

----------------------------------------------------------------------------
(* Text *)

UpperCase == <<"A","B","C","D","E","F","G","H","I","J","K","L","M",
               "N","O","P","Q","R","S","T","U","V","W","X","Y","Z">>
LowerCase == <<"a","b","c","d","e","f","g","h","i","j","k","l","m",
               "n","o","p","q","r","s","t","u","v","w","x","y","z">>

\* str.lower() on one ASCII character
lower_char(c) ==
    IF \E i \in DOMAIN UpperCase : UpperCase[i] = c
    THEN LowerCase[CHOOSE i \in DOMAIN UpperCase : UpperCase[i] = c]
    ELSE c

\* str.lower()
lower(s) == [i \in DOMAIN s |-> lower_char(s[i])]

\* the genre tags the model uses, of the vocabulary of the Genre multiselect
Fiction == <<"F","i","c","t","i","o","n">>
SciFi == <<"S","c","i","-","F","i">>
\* the legacy tag the migration rewrites
ScienceFiction == <<"S","c","i","e","n","c","e"," ","F","i","c","t","i","o","n">>
\* the sentinel of the filter selectboxes
All == <<"A","l","l">>
\* the tag "Non-Fiction" of the genre multiselect
NonFiction == <<"N","o","n","-","F","i","c","t","i","o","n">>

\* a mutant of contains: q is looked for at the start of s only
starts_with(q, s) == Len(q) <= Len(s) /\ SubSeq(s, 1, Len(q)) = q

\* Python's "q in s" on two strings
contains(q, s) ==
    \E i \in 0..(Len(s) - Len(q)) : SubSeq(s, i + 1, i + Len(q)) = q

----------------------------------------------------------------------------
(* Values *)

\* Python None, and the bytes an uploaded cover's read() returns
None == [type |-> "NoneType", data |-> <<>>]
CoverBytes == [type |-> "bytes", data |-> <<137, 80>>]
\* JSON null
JsonNull == [type |-> "null", data |-> <<>>]

\* a JSON document on disk, a file that is not valid JSON, no file
JsonFile(doc) == [kind |-> "json", doc |-> doc]
Garbage == [kind |-> "garbage", doc |-> <<>>]
Absent == [kind |-> "absent", doc |-> <<>>]

\* an element of the JSON root list that is not an object (a number)
JsonNumber == [number |-> 5]
IsDict(book) == "number" \notin DOMAIN book

HasKey(book, k) == IsDict(book) /\ k \in DOMAIN book

\* dict.update
update(book, fields) ==
    [k \in DOMAIN book \cup DOMAIN fields |->
        IF k \in DOMAIN fields THEN fields[k] ELSE book[k]]

----------------------------------------------------------------------------
(* JSON encoding *)

\* json.dump can encode every value of the store but bytes
Serializable(lib) ==
    \A i \in DOMAIN lib :
        HasKey(lib[i], "cover_image") => lib[i]["cover_image"].type # "bytes"

JsonEncodeBook(book) ==
    [k \in DOMAIN book |->
        IF k = "cover_image" /\ book[k] = None THEN JsonNull ELSE book[k]]

JsonDecodeBook(obj) ==
    [k \in DOMAIN obj |->
        IF k = "cover_image" /\ obj[k] = JsonNull THEN None ELSE obj[k]]

\* json.dump(library, file) on a serializable library
json_dump(lib) == JsonFile([i \in DOMAIN lib |-> JsonEncodeBook(lib[i])])

\* json.load(file) on a valid document
json_load(f) == [i \in DOMAIN f.doc |-> JsonDecodeBook(f.doc[i])]

----------------------------------------------------------------------------
(* Inputs *)

\* the inclusive ends of the rating sliders
MinRating == 1
MaxRating == 5

Fields(t, a, y, g, r, c, n, v) ==
    [title |-> t, author |-> a, publication_year |-> y, genres |-> g,
     read_status |-> r, cover_image |-> c, rating |-> n, review |-> v]

\* what datetime.now() may return, in seconds
Times == {1, 2}

\* the argument lists add_book and edit_book are called with; cover_image is
\* what the uploaded file's read() returns, None without an upload
ValidArgs ==
    { Fields(<<"a","b">>, <<"x">>, 1999, <<Fiction>>, FALSE, None, 3, <<>>),
      Fields(<<"A","B">>, <<"y">>, 2023, <<SciFi, Fiction>>, TRUE, CoverBytes, 5, <<"r">>) }

InvalidArgs ==
    { Fields(<<>>, <<"x">>, 1999, <<Fiction>>, FALSE, None, 3, <<>>),
      Fields(<<"a","b">>, <<>>, 1999, <<Fiction>>, FALSE, None, 3, <<>>),
      Fields(<<"a","b">>, <<"x">>, 1999, <<>>, FALSE, None, 3, <<>>) }

BookArgs == ValidArgs \cup InvalidArgs

\* argument lists of books with a single tag, "Non-Fiction" or "Sci-Fi"
TaggedArgs ==
    { Fields(<<"b">>, <<"y">>, 2001, <<NonFiction>>, FALSE, None, 4, <<>>),
      Fields(<<"A","B">>, <<"x">>, 2002, <<SciFi>>, TRUE, None, 2, <<>>) }

\* the queries and the fields search_books is called with
Queries ==
    { <<"f","i","c">>, <<"F","I","C">>, <<"F","i">>, <<>>, <<"b">>, <<"X">> }
SearchFields == {"title", "author", "genre"}

\* the titles remove_book is called with
RemoveTitles == { <<"a","b">>, <<"A","B">>, <<"A","b">>, <<"b">>, <<"z">> }

\* the indexes edit_book is called with
EditIndexes == (0 - (MaxBooks + 1)) .. MaxBooks

\* the "if title and author and genres" test of the two form handlers
required_fields(a) == a.title # <<>> /\ a.author # <<>> /\ a.genres # <<>>

\* books as older versions of the program, or other programs, wrote them
LegacyBook ==
    [title |-> <<"a","b">>, author |-> <<"x">>, publication_year |-> 1999,
     read_status |-> TRUE, date_added |-> 0]
OldTagBook ==
    [title |-> <<"b">>, author |-> <<"y">>, publication_year |-> 2023,
     genres |-> <<ScienceFiction, Fiction, ScienceFiction>>, read_status |-> FALSE,
     date_added |-> 0, cover_image |-> JsonNull, rating |-> 2, review |-> <<>>]
UpperBook ==
    [title |-> <<"A","B">>, author |-> <<"x">>, publication_year |-> 1999,
     genres |-> <<Fiction>>, read_status |-> TRUE,
     date_added |-> 0, cover_image |-> JsonNull, rating |-> 4, review |-> <<"r">>]

\* what LIBRARY_FILE may hold when the program starts
InitialFiles ==
    { Absent, Garbage,
      JsonFile(<<>>),
      JsonFile(<<OldTagBook, LegacyBook, UpperBook>>),
      JsonFile(<<OldTagBook, JsonNumber>>) }

----------------------------------------------------------------------------
(* The core *)

\* the dict add_book builds
new_book(a, now) ==
    [title |-> a.title, author |-> a.author,
     publication_year |-> a.publication_year, genres |-> a.genres,
     read_status |-> a.read_status, date_added |-> now,
     cover_image |-> a.cover_image, rating |-> a.rating, review |-> a.review]

\* the list comprehension that rewrites the legacy tag
normalize_genres(genres) ==
    [i \in DOMAIN genres |->
        IF genres[i] = ScienceFiction THEN SciFi ELSE genres[i]]

\* the body of the migration loop
migrate_book(book) ==
    update(book, [genres |-> normalize_genres(
        IF "genres" \in DOMAIN book THEN book["genres"] ELSE <<>>)])

\* the first element the migration loop raises on (the in test raises
\* TypeError on an element that is no container), 0 when it raises on none
FirstBad(loaded) ==
    IF \A i \in DOMAIN loaded : IsDict(loaded[i]) THEN 0
    ELSE CHOOSE i \in DOMAIN loaded :
            /\ ~IsDict(loaded[i])
            /\ \A j \in 1..(i - 1) : IsDict(loaded[j])

\* the migration loop, run on the list already assigned to the store; it
\* stops at the element it raises on
Migration(loaded) ==
    [i \in DOMAIN loaded |->
        IF FirstBad(loaded) = 0 \/ i < FirstBad(loaded)
        THEN migrate_book(loaded[i]) ELSE loaded[i]]

\* a mutant of button_migration: the genres key is backfilled and the
\* legacy tag is left as it is
backfill_only(loaded) ==
    [i \in DOMAIN loaded |->
        IF FirstBad(loaded) = 0 \/ i < FirstBad(loaded)
        THEN update(loaded[i], [genres |->
                IF "genres" \in DOMAIN loaded[i] THEN loaded[i]["genres"] ELSE <<>>])
        ELSE loaded[i]]

\* the migration loops of the session-start load and of the Load button
session_migration(loaded) == Migration(loaded)
button_migration(loaded) == Migration(loaded)

\* a mutant of remove_filter: titles are compared to the letter
remove_filter_exact(lib, title) ==
    SelectSeq(lib, LAMBDA book : book["title"] # title)

\* the list comprehension of remove_book
remove_filter(lib, title) ==
    SelectSeq(lib, LAMBDA book : lower(book["title"]) # lower(title))

\* list indexing: the position (from 1) that index names, 0 when it raises
\* IndexError
list_index(lib, index) ==
    IF 0 <= index /\ index < Len(lib) THEN index + 1
    ELSE IF index < 0 /\ 0 - Len(lib) <= index THEN Len(lib) + index + 1
    ELSE 0

\* a mutant of edit_fields: the edit stamps the record anew
edit_fields_redated(a, cover) ==
    [title |-> a.title, author |-> a.author,
     publication_year |-> a.publication_year, genres |-> a.genres,
     read_status |-> a.read_status, cover_image |-> cover,
     rating |-> a.rating, review |-> a.review, date_added |-> 0]

\* the dict edit_book passes to update
edit_fields(a, cover) ==
    [title |-> a.title, author |-> a.author,
     publication_year |-> a.publication_year, genres |-> a.genres,
     read_status |-> a.read_status, cover_image |-> cover,
     rating |-> a.rating, review |-> a.review]

\* the cover edit_book stores
new_cover(book, a) ==
    IF a.cover_image # None THEN a.cover_image ELSE book["cover_image"]

----------------------------------------------------------------------------
(* The View Library filters *)

\* the key of a book that search_books reads for search_by
search_key(search_by) == IF search_by = "genre" THEN "genres" ELSE search_by

\* the test of the search_books loop on one book, query lower-cased
search_match(book, query, search_by) ==
    IF search_by = "genre"
    THEN \E j \in DOMAIN book["genres"] :
            contains(query, lower(book["genres"][j]))
    ELSE contains(query, lower(book[search_by]))

\* the list the search_books loop builds
search_results(lib, query, search_by) ==
    SelectSeq(lib, LAMBDA book : search_match(book, lower(query), search_by))

\* the exception book[key] raises in a loop over lib: TypeError on an
\* element that is no dict, KeyError on a dict without the key
subscript_raises(lib, key) ==
    IF \E i \in DOMAIN lib :
            /\ ~IsDict(lib[i])
            /\ \A j \in 1..(i - 1) : HasKey(lib[j], key)
    THEN "TypeError" ELSE "KeyError"

\* book.get("rating", 0)
get_rating(book) == IF "rating" \in DOMAIN book THEN book["rating"] ELSE 0

\* the choices of the "Filter by Genre" selectbox
genre_choices(lib) ==
    {All} \cup UNION { { lib[i]["genres"][j] : j \in DOMAIN lib[i]["genres"] } :
                        i \in DOMAIN lib }

StatusChoices == {"All", "Read", "Unread"}

\* the ranges the "Filter by Rating" slider can be set to
RatingRanges ==
    { r \in (MinRating..MaxRating) \X (MinRating..MaxRating) : r[1] <= r[2] }

filter_by_genre(books, filter_genre) ==
    IF filter_genre # All
    THEN SelectSeq(books, LAMBDA book :
            \E j \in DOMAIN book["genres"] : book["genres"][j] = filter_genre)
    ELSE books

filter_by_status(books, filter_status) ==
    IF filter_status # "All"
    THEN SelectSeq(books, LAMBDA book :
            book["read_status"] = (filter_status = "Read"))
    ELSE books

\* a mutant of filter_by_rating: the low end of the range is excluded
filter_by_rating_open(books, filter_rating) ==
    SelectSeq(books, LAMBDA book :
        filter_rating[1] < get_rating(book) /\ get_rating(book) <= filter_rating[2])

filter_by_rating(books, filter_rating) ==
    SelectSeq(books, LAMBDA book :
        filter_rating[1] <= get_rating(book) /\ get_rating(book) <= filter_rating[2])

\* filtered_books as the View Library tab computes it
view_filter(lib, filter_genre, filter_status, filter_rating) ==
    filter_by_rating(
        filter_by_status(filter_by_genre(lib, filter_genre), filter_status),
        filter_rating)

----------------------------------------------------------------------------
(* Initial state: no session yet; the file is whatever is on disk *)

NoArg == [none |-> TRUE]

Init ==
    /\ session = FALSE
    /\ library = <<>>
    /\ file \in InitialFiles
    /\ ioFailures = 0
    /\ op = "init"
    /\ arg = NoArg
    /\ ret = "None"
    /\ saved = "not_called"
    /\ filtered_books = <<>>
    /\ results = <<>>

\* what an operation records about itself; the list of the View Library
\* tab and the result of search_books are those of their own run
Ran(name, a) ==
    op' = name /\ arg' = a /\ filtered_books' = <<>> /\ results' = <<>>

----------------------------------------------------------------------------
(* Persistence *)

\* save_library() on the library lib: json.dump raises TypeError on bytes
\* after open() has truncated the file; open() or write() may raise OSError;
\* every exception is caught and reported
save_library(lib) ==
    \/ /\ Serializable(lib)
       /\ file' = json_dump(lib)
       /\ saved' = "success"
       /\ UNCHANGED ioFailures
    \/ /\ ~Serializable(lib)
       /\ file' = Garbage
       /\ saved' = "error"
       /\ UNCHANGED ioFailures
    \/ /\ ioFailures < MaxIOFailures
       /\ ioFailures' = ioFailures + 1
       /\ file' \in {file, Garbage}
       /\ saved' = "error"

\* the try block of a load, entered with the store lib and the migration
\* loop migration; the file exists
load_block(lib, loaded_migrated, raises) ==
    \/ /\ file.kind = "json"
       /\ library' = loaded_migrated
       /\ ret' = IF raises THEN "error" ELSE "loaded"
       /\ UNCHANGED ioFailures
    \/ /\ file.kind = "garbage"
       /\ library' = lib
       /\ ret' = "error"
       /\ UNCHANGED ioFailures
    \/ /\ ioFailures < MaxIOFailures
       /\ ioFailures' = ioFailures + 1
       /\ library' = lib
       /\ ret' = "error"

\* a new session: the script runs with no 'library' in st.session_state
SessionStart ==
    /\ session' = TRUE
    /\ Ran("session_start", NoArg)
    /\ saved' = "not_called"
    /\ UNCHANGED file
    /\ IF file.kind # "absent"
       THEN load_block(<<>>, session_migration(json_load(file)),
                       FirstBad(json_load(file)) # 0)
       ELSE library' = <<>> /\ ret' = "None" /\ UNCHANGED ioFailures

\* the "Load Library from File" button
LoadLibrary ==
    /\ session
    /\ Ran("load_library", NoArg)
    /\ saved' = "not_called"
    /\ UNCHANGED <<session, file>>
    /\ IF file.kind # "absent"
       THEN load_block(library, button_migration(json_load(file)),
                       FirstBad(json_load(file)) # 0)
       ELSE library' = library /\ ret' = "no_file" /\ UNCHANGED ioFailures

\* the "Save Library to File" button
SaveLibrary ==
    /\ session
    /\ Ran("save_library", NoArg)
    /\ save_library(library)
    /\ ret' = "None"
    /\ UNCHANGED <<session, library>>

----------------------------------------------------------------------------
(* Store operations *)

\* a mutant of appended: the new book is put first
prepended(lib, book) == <<book>> \o lib

\* list.append
appended(lib, book) == Append(lib, book)

\* a mutant of add_book: the append is undone when the save fails
add_book_rollback(a, now) ==
    /\ save_library(appended(library, new_book(a, now)))
    /\ library' = IF saved' = "error" THEN library
                  ELSE appended(library, new_book(a, now))
    /\ ret' = IF saved' = "error" THEN "False" ELSE "True"

\* add_book(...) when datetime.now() returns now
add_book(a, now) ==
    /\ library' = appended(library, new_book(a, now))
    /\ save_library(library')
    /\ ret' = "True"

\* the exception edit_book(index, ...) raises before it changes anything,
\* "None" when it raises none
edit_raises(lib, index, a) ==
    IF list_index(lib, index) = 0 THEN "IndexError"
    ELSE IF ~IsDict(lib[list_index(lib, index)])
         THEN (IF a.cover_image = None THEN "TypeError" ELSE "AttributeError")
    ELSE IF a.cover_image = None /\ "cover_image" \notin DOMAIN lib[list_index(lib, index)]
         THEN "KeyError"
    ELSE "None"

\* the library after a successful edit_book(index, ...)
edited(lib, index, a) ==
    [lib EXCEPT ![list_index(lib, index)] =
        update(@, edit_fields(a, new_cover(@, a)))]

\* edit_book(index, ...)
edit_book(index, a) ==
    IF edit_raises(library, index, a) = "None"
    THEN /\ library' = edited(library, index, a)
         /\ save_library(library')
         /\ ret' = "True"
    ELSE /\ ret' = edit_raises(library, index, a)
         /\ saved' = "not_called"
         /\ UNCHANGED <<library, file, ioFailures>>

\* the exception book["title"] raises in the list comprehension: TypeError
\* on an element that is no dict, KeyError on a dict without the key
title_raises(lib) ==
    IF \E i \in DOMAIN lib :
            /\ ~IsDict(lib[i])
            /\ \A j \in 1..(i - 1) : HasKey(lib[j], "title")
    THEN "TypeError" ELSE "KeyError"

\* remove_book(title)
remove_book(title) ==
    IF \A i \in DOMAIN library : HasKey(library[i], "title")
    THEN /\ library' = remove_filter(library, title)
         /\ IF Len(library') < Len(library)
            THEN save_library(library') /\ ret' = "True"
            ELSE /\ ret' = "False"
                 /\ saved' = "not_called"
                 /\ UNCHANGED <<file, ioFailures>>
    ELSE /\ ret' = title_raises(library)
         /\ saved' = "not_called"
         /\ UNCHANGED <<library, file, ioFailures>>

\* a call of add_book with arguments of the set Args
AddBookWith(Args) ==
    /\ session
    /\ Len(library) < MaxBooks
    /\ \E a \in Args, now \in Times :
        /\ Ran("add_book", NoArg)
        /\ add_book(a, now)
    /\ UNCHANGED session

\* a call of edit_book with arguments of the set Args
EditBookWith(Args) ==
    /\ session
    /\ \E index \in EditIndexes, a \in Args :
        /\ Ran("edit_book", [index |-> index])
        /\ edit_book(index, a)
    /\ UNCHANGED session

\* calls of add_book and edit_book with the required fields filled
AddBook == AddBookWith(ValidArgs)
EditBook == EditBookWith(ValidArgs)

\* calls of add_book and edit_book with a required field empty
AddBookEmptyField == AddBookWith(InvalidArgs)
EditBookEmptyField == EditBookWith(InvalidArgs)

\* a call of remove_book by the presentation layer
RemoveBook ==
    /\ session
    /\ \E title \in RemoveTitles :
        /\ Ran("remove_book", [title |-> title])
        /\ remove_book(title)
    /\ UNCHANGED session

\* the Add Book form is submitted
AddBookForm ==
    /\ session
    /\ Len(library) < MaxBooks
    /\ \E a \in BookArgs, now \in Times :
        /\ Ran("add_form", NoArg)
        /\ IF required_fields(a)
           THEN add_book(a, now)
           ELSE /\ ret' = "required_fields"
                /\ saved' = "not_called"
                /\ UNCHANGED <<library, file, ioFailures>>
    /\ UNCHANGED session

\* list.index(selected_title), from 0
first_index(lib, title) ==
    (CHOOSE i \in DOMAIN lib :
        /\ lib[i]["title"] = title
        /\ \A j \in 1..(i - 1) : lib[j]["title"] # title) - 1

\* the keys of the selected book the Edit Books form reads with book[...]
FormKeys == {"title", "author", "publication_year", "genres", "read_status"}

\* the Edit Books form is submitted for the book selected by title; the
\* form renders only when every book has a title and the selected book has
\* the keys the form reads
EditBookForm ==
    /\ session
    /\ library # <<>>
    /\ \A i \in DOMAIN library : HasKey(library[i], "title")
    /\ \E i \in DOMAIN library, a \in BookArgs :
        /\ \A k \in FormKeys :
                HasKey(library[first_index(library, library[i]["title"]) + 1], k)
        /\ Ran("edit_form", [index |-> first_index(library, library[i]["title"])])
        /\ IF required_fields(a)
           THEN edit_book(first_index(library, library[i]["title"]), a)
           ELSE /\ ret' = "required_fields"
                /\ saved' = "not_called"
                /\ UNCHANGED <<library, file, ioFailures>>
    /\ UNCHANGED session

\* search_books(query, search_by)
search_books(query, search_by) ==
    IF \A i \in DOMAIN library : HasKey(library[i], search_key(search_by))
    THEN /\ results' = search_results(library, query, search_by)
         /\ ret' = "results"
    ELSE /\ results' = <<>>
         /\ ret' = subscript_raises(library, search_key(search_by))

\* a call of search_books
SearchBooks ==
    /\ session
    /\ \E query \in Queries, search_by \in SearchFields :
        /\ op' = "search_books"
        /\ arg' = [query |-> query, search_by |-> search_by]
        /\ search_books(query, search_by)
    /\ filtered_books' = <<>>
    /\ saved' = "not_called"
    /\ UNCHANGED <<session, library, file, ioFailures>>

\* a call of add_book for a book with a single tag
AddBookTagged == AddBookWith(TaggedArgs)

\* the View Library tab renders with the filter widgets set; it renders
\* only when every book has the keys the selectbox and the filters read
ViewLibrary ==
    /\ session
    /\ library # <<>>
    /\ \A i \in DOMAIN library :
        /\ HasKey(library[i], "genres")
        /\ HasKey(library[i], "read_status")
    /\ \E g \in genre_choices(library), s \in StatusChoices, r \in RatingRanges :
        /\ op' = "view"
        /\ arg' = [filter_genre |-> g, filter_status |-> s, filter_rating |-> r]
        /\ filtered_books' = view_filter(library, g, s, r)
    /\ results' = <<>>
    /\ ret' = "None"
    /\ saved' = "not_called"
    /\ UNCHANGED <<session, library, file, ioFailures>>

Next ==
    \/ SessionStart
    \/ LoadLibrary
    \/ SaveLibrary
    \/ AddBook
    \/ EditBook
    \/ RemoveBook
    \/ AddBookForm
    \/ EditBookForm

Spec == Init /\ [][Next]_vars

\* the program with add_book and edit_book called with any arguments
NextAnyArgs ==
    \/ Next
    \/ AddBookEmptyField
    \/ EditBookEmptyField

SpecAnyArgs == Init /\ [][NextAnyArgs]_vars

\* the program with the View Library tab observed: the store is filled by
\* the session-start load and the Add Book form, and the tab renders
NextView ==
    \/ SessionStart
    \/ AddBookForm
    \/ ViewLibrary

SpecView == Init /\ [][NextView]_vars

\* the program with search_books observed: the store is filled by the
\* session-start load and by add_book
NextSearch ==
    \/ SessionStart
    \/ AddBook
    \/ AddBookTagged
    \/ SearchBooks

SpecSearch == Init /\ [][NextSearch]_vars

----------------------------------------------------------------------------
(* Claims *)

Loads == {"session_start", "load_library"}
Mutations == {"add_book", "add_form", "edit_book", "edit_form", "remove_book"}

\* the store a load starts from: the one of the session, empty in a new one
StoreBefore == IF op' = "session_start" THEN <<>> ELSE library

\* every element of the store is a record (a dict)
AllRecords(lib) == \A i \in DOMAIN lib : IsDict(lib[i])

\* every element of the store is a record that holds every field of a
\* book, with a non-empty title, author and genres
CompleteRecords(lib) ==
    \A i \in DOMAIN lib :
        /\ DOMAIN lib[i] = DOMAIN new_book(CHOOSE a \in ValidArgs : TRUE, 0)
        /\ required_fields(lib[i])

\* C1: a step add_book(a, ...) or edit_book(index, a) with an empty title, an
\* empty author or an empty genre sequence does not return True, leaves the
\* store unchanged and does not call save_library.
C1_RequiredFieldsEnforced ==
    [][\A a \in InvalidArgs :
        /\ \A now \in Times :
            (op' = "add_book" /\ add_book(a, now)) =>
                (ret' # "True" /\ library' = library /\ saved' = "not_called")
        /\ \A index \in EditIndexes :
            (op' = "edit_book" /\ arg' = [index |-> index] /\ edit_book(index, a)) =>
                (ret' # "True" /\ library' = library /\ saved' = "not_called")
      ]_vars

\* C2: a load that reports an error (either path) leaves the store as it was
\* when the load started.
C2_FailedLoadKeepsStore ==
    [][(op' \in Loads /\ ret' = "error") => library' = StoreBefore]_vars

\* C3: with no file-system error, a save of a store of records followed at
\* once by a load (either path) loads, and the store is the one saved.
C3_SaveLoadRoundTrip ==
    [][(/\ op = "save_library"
        /\ AllRecords(library)
        /\ op' \in Loads
        /\ ioFailures' = 0)
       => (ret' = "loaded" /\ library' = library)]_vars

\* C4: edit_book(index, ...) with index outside 0 <= index < len(library)
\* (every negative index included) raises IndexError and changes neither the
\* store nor the file. Stated of the calls made with a non-empty title,
\* author and genres on a store of records that hold every field.
C4_OutOfRangeIndexRejected ==
    [][(/\ op' = "edit_book"
        /\ CompleteRecords(library)
        /\ \E a \in ValidArgs : edit_book(arg'.index, a)
        /\ ~(0 <= arg'.index /\ arg'.index < Len(library)))
       => (ret' = "IndexError" /\ library' = library /\ file' = file)]_vars

\* the fields of a record that add_book and edit_book take from their
\* arguments, cover_image aside
SuppliedFields ==
    {"title", "author", "publication_year", "genres", "read_status",
     "rating", "review"}

TakesSupplied(book, a) ==
    \A k \in SuppliedFields : k \in DOMAIN book /\ book[k] = a[k]

\* C5: a step add_book(a, ...) with a non-empty title, author and genres
\* returns True, makes the store one longer, leaves the records that were
\* there at their positions, and puts last a record that holds the supplied
\* fields and date_added = now.
C5_AddAppendsOne ==
    [][\A a \in ValidArgs, now \in Times :
        (op' \in {"add_book", "add_form"} /\ add_book(a, now)) =>
            /\ ret' = "True"
            /\ Len(library') = Len(library) + 1
            /\ \A i \in DOMAIN library : library'[i] = library[i]
            /\ TakesSupplied(library'[Len(library')], a)
            /\ library'[Len(library')]["date_added"] = now
            /\ library'[Len(library')]["cover_image"] = a.cover_image
      ]_vars

\* an add_book call returned True on a store that held a record already
C5_Witness ==
    /\ op = "add_book"
    /\ ret = "True"
    /\ Len(library) = 2
    /\ library[2]["date_added"] = 2
    /\ library[1]["date_added"] = 1

\* two characters that differ at most in case
SameLetter(c, d) ==
    \/ c = d
    \/ \E k \in DOMAIN UpperCase : {c, d} = {UpperCase[k], LowerCase[k]}

\* two texts that are equal ignoring case
EqualIgnoringCase(s, t) ==
    /\ Len(s) = Len(t)
    /\ \A i \in DOMAIN s : SameLetter(s[i], t[i])

\* C6: a remove_book(title) call that returns leaves exactly the records
\* whose title differs from title ignoring case, in their order; it returns
\* True iff a record matched; when none matched the store and the file are
\* unchanged and save_library is not called; and a call with any title equal
\* to title ignoring case has the same effect on the store.
C6_RemoveIgnoresCase ==
    [][(op' = "remove_book" /\ ret' \in {"True", "False"}) =>
        /\ library' = SelectSeq(library, LAMBDA book :
                ~EqualIgnoringCase(book["title"], arg'.title))
        /\ (ret' = "True") =
            (\E i \in DOMAIN library :
                EqualIgnoringCase(library[i]["title"], arg'.title))
        /\ ret' = "False" =>
            (library' = library /\ file' = file /\ saved' = "not_called")
        /\ \A u \in RemoveTitles :
            EqualIgnoringCase(u, arg'.title) =>
                remove_filter(library, u) = library'
      ]_vars

\* remove_book("Ab") removed records (no record is titled "Ab" to the
\* letter) and left one
C6_Witness ==
    /\ op = "remove_book"
    /\ arg = [title |-> <<"A","b">>]
    /\ ret = "True"
    /\ Len(library) = 1
    /\ library[1]["title"] = <<"b">>

\* the genres a load gives a record read from the JSON object obj: none for
\* an object without the key, else the tags in order with every
\* "Science Fiction" replaced by "Sci-Fi"
MigratedFrom(book, obj) ==
    /\ "genres" \in DOMAIN book
    /\ \A j \in DOMAIN book["genres"] : book["genres"][j] # ScienceFiction
    /\ IF "genres" \in DOMAIN obj
       THEN /\ Len(book["genres"]) = Len(obj["genres"])
            /\ \A j \in DOMAIN obj["genres"] :
                /\ obj["genres"][j] = ScienceFiction => book["genres"][j] = SciFi
                /\ obj["genres"][j] # ScienceFiction =>
                        book["genres"][j] = obj["genres"][j]
       ELSE book["genres"] = <<>>

\* C7: after a successful load, on either path, the store has one record per
\* object of the file, each with its genres migrated; the migration of
\* either path applied again changes nothing; and a successful load that
\* follows a successful load at once gives the same store.
C7_LoadMigrates ==
    [][(op' \in Loads /\ ret' = "loaded") =>
        /\ Len(library') = Len(file.doc)
        /\ \A i \in DOMAIN library' : MigratedFrom(library'[i], file.doc[i])
        /\ session_migration(library') = library'
        /\ button_migration(library') = library'
        /\ (op \in Loads /\ ret = "loaded") => library' = library
      ]_vars

\* the Load button loaded a file that holds the legacy tag and a record
\* without genres
C7_Witness ==
    /\ op = "load_library"
    /\ ret = "loaded"
    /\ \E i \in DOMAIN file.doc : "genres" \notin DOMAIN file.doc[i]
    /\ \E i \in DOMAIN file.doc :
        /\ "genres" \in DOMAIN file.doc[i]
        /\ \E j \in DOMAIN file.doc[i]["genres"] :
                file.doc[i]["genres"][j] = ScienceFiction
    /\ \E i \in DOMAIN library : library[i]["genres"] = <<SciFi, Fiction, SciFi>>

\* C8: an edit_book(index, a) step that returns True on 0 <= index <
\* len(library) gives the record at index the supplied fields, keeps its
\* date_added, keeps its cover_image when no cover is supplied, and leaves
\* the length of the store and every other record unchanged.
C8_EditChangesOneRecord ==
    [][(/\ op' \in {"edit_book", "edit_form"}
        /\ ret' = "True"
        /\ 0 <= arg'.index /\ arg'.index < Len(library))
       => \A a \in BookArgs :
            edit_book(arg'.index, a) =>
                /\ Len(library') = Len(library)
                /\ \A i \in DOMAIN library :
                    i # arg'.index + 1 => library'[i] = library[i]
                /\ TakesSupplied(library'[arg'.index + 1], a)
                /\ library'[arg'.index + 1]["date_added"]
                        = library[arg'.index + 1]["date_added"]
                /\ a.cover_image = None =>
                        library'[arg'.index + 1]["cover_image"]
                            = library[arg'.index + 1]["cover_image"]
      ]_vars

\* a book added with a cover was edited with other fields and no cover: it
\* holds the new fields, its cover and its date
C8_Witness ==
    /\ op = "edit_book"
    /\ ret = "True"
    /\ arg = [index |-> 1]
    /\ Len(library) = 2
    /\ library[2]["title"] = <<"a","b">>
    /\ library[2]["rating"] = 3
    /\ library[2]["cover_image"] = CoverBytes
    /\ library[2]["date_added"] = 2

\* C9: when save_library reports an error during add_book, edit_book or
\* remove_book, the call still returns True and the store keeps the change:
\* one record more after an add, the supplied fields at the index after an
\* edit, fewer records after a remove.
C9_SaveErrorKeepsMutation ==
    [][(op' \in Mutations /\ saved' = "error") =>
        /\ ret' = "True"
        /\ op' \in {"add_book", "add_form"} => Len(library') = Len(library) + 1
        /\ op' = "remove_book" => Len(library') < Len(library)
        /\ op' \in {"edit_book", "edit_form"} =>
            \E a \in BookArgs :
                /\ Len(library') = Len(library)
                /\ TakesSupplied(library'[list_index(library, arg'.index)], a)
      ]_vars

\* add_book returned True although the write failed, and the file does not
\* hold the store
C9_Witness ==
    /\ op = "add_book"
    /\ saved = "error"
    /\ ret = "True"
    /\ ioFailures = 1
    /\ file.kind = "json"
    /\ Len(file.doc) + 1 = Len(library)

\* whether a record passes the filters set in the View Library tab
Passes(book, filter_genre, filter_status, filter_rating) ==
    /\ filter_genre # All =>
        \E j \in DOMAIN book["genres"] : book["genres"][j] = filter_genre
    /\ filter_status = "Read" => book["read_status"] = TRUE
    /\ filter_status = "Unread" => book["read_status"] = FALSE
    /\ filter_rating[1] <= (IF "rating" \in DOMAIN book THEN book["rating"] ELSE 0)
    /\ (IF "rating" \in DOMAIN book THEN book["rating"] ELSE 0) <= filter_rating[2]

\* C10: the list the View Library tab shows holds, in store order, exactly
\* the records that pass every filter that is set (genre: the tag is one of
\* the record's genres; status: read_status equals it; rating: low <= rating
\* <= high, a missing rating counting as 0), and the three filters applied
\* in any other order give the same list.
C10_ViewFilter ==
    op = "view" =>
        LET g == arg.filter_genre
            s == arg.filter_status
            r == arg.filter_rating
        IN  /\ filtered_books =
                SelectSeq(library, LAMBDA book : Passes(book, g, s, r))
            /\ filtered_books =
                filter_by_genre(filter_by_status(filter_by_rating(library, r), s), g)
            /\ filtered_books =
                filter_by_status(filter_by_genre(filter_by_rating(library, r), g), s)
            /\ filtered_books =
                filter_by_genre(filter_by_rating(filter_by_status(library, s), r), g)
            /\ filtered_books =
                filter_by_rating(filter_by_genre(filter_by_status(library, s), g), r)
            /\ filtered_books =
                filter_by_status(filter_by_rating(filter_by_genre(library, g), r), s)

\* the tab showed some but not all records of a store that holds a record
\* without a rating, with the genre and the status filter set and the
\* rating range ending at a record's rating
C10_Witness ==
    /\ op = "view"
    /\ arg.filter_genre = Fiction
    /\ arg.filter_status = "Read"
    /\ arg.filter_rating = <<4, 5>>
    /\ \E i \in DOMAIN library : "rating" \notin DOMAIN library[i]
    /\ Len(filtered_books) = 1
    /\ filtered_books[1]["rating"] = 4
    /\ Len(library) = 3

----------------------------------------------------------------------------
(* C11 *)

\* the text q occurs in the text s, ignoring case
OccursIgnoringCase(q, s) ==
    \E start \in 0..(Len(s) - Len(q)) :
        \A k \in 1..Len(q) : SameLetter(q[k], s[start + k])

\* the texts of a record that a search by search_by looks at
SearchedTexts(book, search_by) ==
    IF search_by = "genre"
    THEN { book["genres"][j] : j \in DOMAIN book["genres"] }
    ELSE { book[search_by] }

\* the positions of the store a search for query by search_by is to return
Hits(query, search_by) ==
    { i \in DOMAIN library :
        \E t \in SearchedTexts(library[i], search_by) :
            OccursIgnoringCase(query, t) }

\* C11: a search_books(query, field) call that returns gives exactly the
\* records in which the query occurs, ignoring case, in the title (field
\* title), in the author (field author) or in at least one genre tag (field
\* genre), each once and in store order; a genre search for "fic" returns
\* every record tagged "Fiction" or "Non-Fiction" and no record tagged only
\* "Sci-Fi".
C11_SearchSubstring ==
    (op = "search_books" /\ ret = "results") =>
        LET hits == Hits(arg.query, arg.search_by)
        IN  /\ Len(results) = Cardinality(hits)
            /\ \E f \in [DOMAIN results -> hits] :
                /\ \A k, l \in DOMAIN results : k < l => f[k] < f[l]
                /\ \A k \in DOMAIN results : results[k] = library[f[k]]
            /\ (arg.search_by = "genre" /\ arg.query = <<"f","i","c">>) =>
                /\ \A i \in DOMAIN library :
                        (\E j \in DOMAIN library[i]["genres"] :
                            library[i]["genres"][j] \in {Fiction, NonFiction})
                        => \E k \in DOMAIN results : results[k] = library[i]
                /\ \A k \in DOMAIN results : results[k]["genres"] # <<SciFi>>

\* a genre search for "fic" on a store of a "Non-Fiction" record and a
\* "Sci-Fi" record returned the first alone
C11_Witness ==
    /\ op = "search_books"
    /\ ret = "results"
    /\ arg = [query |-> <<"f","i","c">>, search_by |-> "genre"]
    /\ Len(library) = 2
    /\ library[1]["genres"] = <<SciFi>>
    /\ library[2]["genres"] = <<NonFiction>>
    /\ results = <<library[2]>>

----------------------------------------------------------------------------
(* C12 *)

\* C12: write-through: each time an add, edit or remove that changed the
\* store returns, the file holds the full current record sequence of the
\* store. Stated for the calls during which no file-system error occurs
\* (C9 is about those): the file is then a JSON document that loads as the
\* store.
C12_WriteThrough ==
    [][(/\ op' \in Mutations
        /\ library' # library
        /\ ioFailures' = ioFailures)
       => (/\ file'.kind = "json"
           /\ json_load(file') = library')]_vars

====
